---------------------------- MODULE Spec2Model ----------------------------
(***************************************************************************)
(* A model of src/app.py, the "TF EB Bills Viewer": one Streamlit script   *)
(* that fetches a table over the Supabase REST interface (with urllib3     *)
(* retries), normalizes it into a dataframe kept in st.session_state and,  *)
(* on every script run, filters, paginates, totals and exports it.         *)
(*                                                                         *)
(* Strings are sequences of one-character strings, so that str.strip and   *)
(* str.contains are computed character by character.  Floats are modelled  *)
(* by integers (every amount of the model is integral).  A dataframe is a  *)
(* sequence of rows; the order of the multiselect options (a sorted list   *)
(* in the code) is not modelled, the options are a set.                    *)
(***************************************************************************)
EXTENDS Integers, Sequences, FiniteSets, TLC

VARIABLES
    env,        \* SUPABASE_URL / SUPABASE_KEY as read at start-up
    ss,         \* st.session_state: data_loaded, df, last_error
    pc,         \* where the script run is: "idle" between runs, "fetching"
                \* inside session.get, "main" between the button handler and
                \* the main page
    retry,      \* the urllib3 Retry counters of the request in progress
    attempts,   \* HTTP requests issued by this run's fetch_table_data_via_rest call
    last,       \* what the latest attempt of this run's call met
    before,     \* data_loaded and df as they were when the button was clicked,
                \* kept while the handler runs and after it ended in its
                \* except branch
    fetched,    \* the JSON answer this run's call returned
    outcome,    \* how this run's button handler ended ("none": not clicked)
    ui,         \* what the latest script run rendered below the button
    session,    \* the login session of the login-gated version
    now         \* the clock, in seconds

vars == <<env, ss, pc, retry, attempts, last, before, fetched, outcome, ui, session, now>>

(***************************************************************************)
(* Bounds of the model.                                                    *)
(***************************************************************************)
MaxRows == 1        \* rows of a JSON answer in Spec
MaxViewRows == 3    \* rows of a mixed table in SpecView
MaxPageRows == 21   \* rows of a long table in SpecView
MaxClock == 1000    \* the latest instant of SpecGuard

Min(a, b) == IF a <= b THEN a ELSE b
Max(a, b) == IF a >= b THEN a ELSE b

(***************************************************************************)
(* Strings.                                                                *)
(***************************************************************************)
EmptyStr == << >>
NoneStr == <<"N", "o", "n", "e">>      \* str(None)
NanStr == <<"n", "a", "n">>            \* str(float("nan"))
Digits == {"0", "1", "2", "3", "4", "5", "6", "7", "8", "9"}
DigitVal(c) == CHOOSE d \in 0..9 : <<"0", "1", "2", "3", "4", "5", "6", "7", "8", "9">>[d + 1] = c

\* str.strip(): leading and trailing blanks removed
RECURSIVE LStrip(_)
LStrip(s) == IF s # << >> /\ Head(s) = " " THEN LStrip(Tail(s)) ELSE s
RECURSIVE RStrip(_)
RStrip(s) == IF s # << >> /\ s[Len(s)] = " " THEN RStrip(SubSeq(s, 1, Len(s) - 1)) ELSE s
Strip(s) == RStrip(LStrip(s))

(***************************************************************************)
(* A cell of the JSON answer, and of the dataframe built from it.          *)
(*   absent: the row object has no such key      none: the key holds null  *)
(*   str: a JSON string                          num: a JSON number        *)
(*   nan: pandas' NaN, which DataFrame() puts where a row lacks a key that *)
(*        another row has                                                  *)
(***************************************************************************)
Cell(k, s, n) == [kind |-> k, s |-> s, n |-> n]
Absent == Cell("absent", << >>, 0)
Null == Cell("none", << >>, 0)
NaN == Cell("nan", << >>, 0)
StrCell(s) == Cell("str", s, 0)
NumCell(n) == Cell("num", << >>, n)

StrCols == {"billNo", "serviceNo", "ero", "billMonth"}
NumCols == {"billAmt", "totAmt"}
Cols == StrCols \cup NumCols \cup {"id"}

\* pd.DataFrame(data): the columns are the keys some row has; a row without
\* a key of another row gets NaN there.  A frame is [columns, rows].
DataFrame(data) ==
    LET columns == {c \in Cols : \E i \in 1..Len(data) : data[i][c].kind # "absent"}
    IN  [columns |-> columns,
         rows |-> [i \in 1..Len(data) |->
                     [c \in Cols |-> IF c \in columns /\ data[i][c].kind = "absent"
                                     THEN NaN ELSE data[i][c]]]]

\* DataFrame.empty: no rows or no columns
FrameEmpty(frame) == Len(frame.rows) = 0 \/ frame.columns = {}

\* pd.to_numeric(errors="coerce") of one cell: a number stays, a string of
\* digits is parsed, anything else is NaN
IsDigits(s) == s # << >> /\ \A i \in 1..Len(s) : s[i] \in Digits
RECURSIVE ParseDigits(_, _)
ParseDigits(s, acc) ==
    IF s = << >> THEN acc ELSE ParseDigits(Tail(s), 10 * acc + DigitVal(Head(s)))
ToNumeric(cell) ==
    CASE cell.kind = "num" -> cell
      [] cell.kind = "str" /\ IsDigits(cell.s) -> NumCell(ParseDigits(cell.s, 0))
      [] OTHER -> NaN

\* Series.fillna(0.0) of one cell
FillNaZero(cell) == IF cell.kind \in {"nan", "none"} THEN NumCell(0) ELSE cell

\* Series.astype(str) of one cell of an object column: str() of the value,
\* None and NaN included (the string columns of the model hold no numbers)
AsTypeStr(cell) ==
    CASE cell.kind = "str" -> cell
      [] cell.kind = "none" -> StrCell(NoneStr)
      [] cell.kind = "nan" -> StrCell(NanStr)

\* Series.fillna("") of one cell
FillNaEmpty(cell) == IF cell.kind \in {"nan", "none"} THEN StrCell(EmptyStr) ELSE cell

NormStrCell(cell) == FillNaEmpty(AsTypeStr(cell))
NormNumCell(cell) == FillNaZero(ToNumeric(cell))

\* normalize_df: the rows of the normalized frame, << >> for an empty frame
normalize_df(frame) ==
    IF FrameEmpty(frame) THEN << >>
    ELSE [i \in 1..Len(frame.rows) |->
            [id |-> frame.rows[i]["id"],
             billNo |-> IF "billNo" \in frame.columns
                        THEN NormStrCell(frame.rows[i]["billNo"]).s ELSE EmptyStr,
             serviceNo |-> IF "serviceNo" \in frame.columns
                           THEN NormStrCell(frame.rows[i]["serviceNo"]).s ELSE EmptyStr,
             ero |-> IF "ero" \in frame.columns
                     THEN NormStrCell(frame.rows[i]["ero"]).s ELSE EmptyStr,
             billMonth |-> IF "billMonth" \in frame.columns
                           THEN NormStrCell(frame.rows[i]["billMonth"]).s ELSE EmptyStr,
             billAmt |-> IF "billAmt" \in frame.columns
                         THEN NormNumCell(frame.rows[i]["billAmt"]).n ELSE 0,
             totAmt |-> IF "totAmt" \in frame.columns
                        THEN NormNumCell(frame.rows[i]["totAmt"]).n ELSE 0]]

(***************************************************************************)
(* The filters of the main page.                                           *)
(***************************************************************************)
Column(df, c) == {df[i][c] : i \in 1..Len(df)}

\* [m for m in df["billMonth"].unique() if m and str(m).strip() != "nan"]
bill_months(df) == {m \in Column(df, "billMonth") : m # EmptyStr /\ Strip(m) # NanStr}
eros(df) == {e \in Column(df, "ero") : e # EmptyStr /\ Strip(e) # NanStr}

\* df[df["billMonth"].isin(selected_months)]
MonthFilter(df, selected_months) ==
    SelectSeq(df, LAMBDA r : r.billMonth \in selected_months)
\* an ERO filter that also keeps one row per ERO (drop_duplicates("ero"))
EroFilterOnePerEro(df, selected_eros) ==
    LET kept == SelectSeq(df, LAMBDA r : r.ero \in selected_eros)
        marked == SelectSeq([i \in 1..Len(kept) |->
                               [row |-> kept[i],
                                first |-> \A j \in 1..(i - 1) : kept[j].ero # kept[i].ero]],
                            LAMBDA x : x.first)
    IN  [i \in 1..Len(marked) |-> marked[i].row]

\* df[df["ero"].isin(selected_eros)]
EroFilter(df, selected_eros) ==
    SelectSeq(df, LAMBDA r : r.ero \in selected_eros)

\* re.compile(pat) raises re.error for a "(" that nothing closes.  Of the
\* characters of the model only "." and "(" are special to a pattern.
ReCompileFails(pat) == \E i \in 1..Len(pat) : pat[i] = "("
\* whether the compiled pattern matches s from position k on: "." stands for
\* any one character, every other character for itself
ReMatchAt(pat, s, k) ==
    /\ k + Len(pat) - 1 <= Len(s)
    /\ \A j \in 1..Len(pat) : pat[j] = "." \/ pat[j] = s[k + j - 1]
\* pattern.search(s) is not None
ReSearch(pat, s) == \E k \in 1..(Len(s) + 1) : ReMatchAt(pat, s, k)
\* Series.str.contains(pat, na=False) of one value; regex=True is the default
StrContains(s, pat) == ReSearch(pat, s)

\* the search box stage: mask_bill | mask_service; the result is
\* [raised, rows], raised when str.contains raises re.error
SearchFilter(df, search_value) ==
    IF search_value = EmptyStr THEN [raised |-> FALSE, rows |-> df]
    ELSE IF ReCompileFails(search_value) THEN [raised |-> TRUE, rows |-> << >>]
    ELSE [raised |-> FALSE,
          rows |-> SelectSeq(df, LAMBDA r : StrContains(r.billNo, search_value)
                                           \/ StrContains(r.serviceNo, search_value))]

(***************************************************************************)
(* Pagination and totals.                                                  *)
(***************************************************************************)
RowsPerPageOptions == {10, 20, 50, 100}

\* math.ceil(a / b) for a >= 0, b > 0
CeilDiv(a, b) == IF a % b = 0 THEN a \div b ELSE (a \div b) + 1
\* floor division plus one in the place of math.ceil
TotalPagesFloor(n, rows_per_page) == (n \div rows_per_page) + 1

\* total_pages = math.ceil(len(df) / rows_per_page) if len(df) > 0 else 1
TotalPages(n, rows_per_page) == IF n > 0 THEN CeilDiv(n, rows_per_page) ELSE 1
\* df.iloc[start:end], both bounds clipped to the frame
ILoc(df, start, end) == SubSeq(df, start + 1, Min(end, Len(df)))
PageSlice(df, page, rows_per_page) ==
    ILoc(df, (page - 1) * rows_per_page, (page - 1) * rows_per_page + rows_per_page)

RECURSIVE SumCol(_, _)
SumCol(df, c) == IF df = << >> THEN 0 ELSE Head(df)[c] + SumCol(Tail(df), c)

(***************************************************************************)
(* One run of the main page (the part of the script below the button).     *)
(* The run renders its stages in order; st.stop() and an exception end it. *)
(***************************************************************************)
LaterStages == {"search", "table", "totals", "charts", "exports"}

\* a page without the st.stop() of an empty selection
HaltsNever(selected) == FALSE

\* "if not selected_months: st.warning(...); st.stop()", the same for EROs
Halts(selected) == selected = {}

BlankUI ==
    [rendered |-> {}, prompt |-> "", raised |-> FALSE, source |-> << >>,
     selected_months |-> {}, selected_eros |-> {}, search_value |-> EmptyStr,
     rows_per_page |-> 20, page |-> 1, view |-> << >>, df_page |-> << >>,
     total_pages |-> 1, total_billAmt |-> 0, total_totAmt |-> 0]

\* the else branch of "if st.session_state.data_loaded"
BeginUI == [BlankUI EXCEPT !.rendered = {"begin_info"}]

\* the rows left by the three filters in the order of the script
FilteredView(df, selected_months, selected_eros, typed) ==
    SearchFilter(EroFilter(MonthFilter(df, selected_months), selected_eros), Strip(typed))

MainUI(df, selected_months, selected_eros, typed, rows_per_page, page) ==
    LET base == [BlankUI EXCEPT !.source = df, !.selected_months = selected_months,
                                !.selected_eros = selected_eros]
        by_month == MonthFilter(df, selected_months)
        by_ero == EroFilter(by_month, selected_eros)
        search_value == Strip(typed)
        found == SearchFilter(by_ero, search_value)
        view == found.rows
        total_pages == TotalPages(Len(view), rows_per_page)
    IN  IF Halts(selected_months)
        THEN [base EXCEPT !.rendered = {"total_records", "month_select"},
                          !.prompt = "Please select at least one billMonth."]
        ELSE IF Halts(selected_eros)
        THEN [base EXCEPT !.rendered = {"total_records", "month_select", "ero_select"},
                          !.prompt = "Please select at least one ERO."]
        ELSE IF found.raised
        THEN [base EXCEPT !.rendered = {"total_records", "month_select", "ero_select",
                                        "search"},
                          !.search_value = search_value, !.raised = TRUE]
        ELSE [base EXCEPT !.rendered = {"total_records", "month_select", "ero_select"}
                                       \cup LaterStages,
                          !.search_value = search_value,
                          !.rows_per_page = rows_per_page, !.page = page,
                          !.view = view,
                          !.df_page = PageSlice(view, page, rows_per_page),
                          !.total_pages = total_pages,
                          !.total_billAmt = SumCol(view, "billAmt"),
                          !.total_totAmt = SumCol(view, "totAmt")]

\* what the user may have typed into the search box
SearchInputs ==
    {EmptyStr, <<" ">>, <<"A">>, <<"1">>, <<"A", "1">>, <<".">>, <<"A", ".">>,
     <<"(">>, <<" ", "S", "1", " ">>, <<"a">>}

\* st.number_input("Page", min_value=1, max_value=max(1, total_pages))
PageChoices(df, selected_months, selected_eros, typed, rows_per_page) ==
    LET found == FilteredView(df, selected_months, selected_eros, typed)
    IN  IF Halts(selected_months) \/ Halts(selected_eros) \/ found.raised THEN {1}
        ELSE 1..Max(1, TotalPages(Len(found.rows), rows_per_page))

\* The widgets hold any value their options allow: a multiselect any subset
\* of its options, the selectbox one of the four sizes, the page a number
\* of its range.
Render(s) ==
    IF ~s.data_loaded THEN ui' = BeginUI
    ELSE \E selected_months \in SUBSET bill_months(s.df) :
         \E selected_eros \in SUBSET eros(MonthFilter(s.df, selected_months)) :
         \E typed \in SearchInputs :
         \E rows_per_page \in RowsPerPageOptions :
         \E page \in PageChoices(s.df, selected_months, selected_eros, typed, rows_per_page) :
            ui' = MainUI(s.df, selected_months, selected_eros, typed, rows_per_page, page)

(***************************************************************************)
(* The remote table and the HTTP session.                                  *)
(***************************************************************************)
M1 == <<"2", "0", "2", "4", "-", "0", "1">>
M2 == <<"2", "0", "2", "4", "-", "0", "2">>

\* the row objects a JSON answer of the model is made of
RawRows ==
    {[id |-> NumCell(1), billNo |-> StrCell(<<"A", "1">>), serviceNo |-> StrCell(<<"S", "1">>),
      ero |-> StrCell(<<"N">>), billMonth |-> StrCell(M1),
      billAmt |-> StrCell(<<"1", "0", "0">>), totAmt |-> StrCell(<<"1", "1", "0">>)],
     [id |-> NumCell(2), billNo |-> StrCell(<<"A", ".">>), serviceNo |-> Null,
      ero |-> Null, billMonth |-> StrCell(M2),
      billAmt |-> Null, totAmt |-> StrCell(<<"a", "b", "c">>)],
     [id |-> Absent, billNo |-> Absent, serviceNo |-> StrCell(<<"1", "A">>),
      ero |-> StrCell(<<"S">>), billMonth |-> Absent,
      billAmt |-> Absent, totAmt |-> NumCell(50)],
     [id |-> Absent, billNo |-> Absent, serviceNo |-> Absent,
      ero |-> Absent, billMonth |-> Absent,
      billAmt |-> Absent, totAmt |-> Absent]}

Tables(max) == UNION {[1..n -> RawRows] : n \in 0..max}
TableContents == Tables(MaxRows)

None == "None"
EnvValues == {None, "", "https://xyz.supabase.co"}

\* "and" in the place of "or"
ConfigMissingBoth(e) == e.url \in {None, ""} /\ e.key \in {None, ""}

\* "if not SUPABASE_URL or not SUPABASE_KEY": None and "" are both falsy
ConfigMissing(e) == e.url \in {None, ""} \/ e.key \in {None, ""}

\* create_requests_session(retries=4, backoff_factor=1.0)
FetchRetries == 4
status_forcelist == {429, 500, 502, 503, 504}
\* urllib3's Retry.RETRY_AFTER_STATUS_CODES
RetryAfterStatusCodes == {413, 429, 503}
Statuses == {200, 404, 413} \cup status_forcelist
ErrorKinds == {"connect", "read", "ssl"}

\* Retry(total=retries, read=retries, connect=retries, ...)
NewRetry(retries) == [total |-> retries, connect |-> retries, read |-> retries]

\* a retry policy that retries after every error status
IsRetryAnyError(r, status, has_retry_after) == status >= 400

\* Retry.is_retry for a GET, which allowed_methods holds
IsRetry(r, status, has_retry_after) ==
    \/ status \in status_forcelist
    \/ r.total # 0 /\ has_retry_after /\ status \in RetryAfterStatusCodes

\* Retry.increment: total counts every retry, connect and read their own
\* kind of error; an SSL error and a status count against total alone
Increment(r, cause) ==
    [total |-> r.total - 1,
     connect |-> IF cause = "connect" THEN r.connect - 1 ELSE r.connect,
     read |-> IF cause = "read" THEN r.read - 1 ELSE r.read]

\* Retry.is_exhausted
IsExhausted(r) == Min(r.total, Min(r.connect, r.read)) < 0

ConfigMsg == "SUPABASE_URL or SUPABASE_KEY not set in environment (.env)"
SslMsg == "SSL error while connecting to Supabase. Try switching network ..."
NetMsg == "Network error when fetching Supabase data: ..."

\* the except clauses of fetch_table_data_via_rest: what it raises for the
\* exception session.get or raise_for_status ended with
FetchRaises(cause) == IF cause = "ssl" THEN SslMsg ELSE NetMsg

(***************************************************************************)
(* The button handler.                                                     *)
(***************************************************************************)
\* st.session_state.last_error = None, first statement of the try block
OnClick(s) == [s EXCEPT !.last_error = None]

\* a handler without the df_norm.empty branch
OnFetchedNoEmptyCheck(s, df_raw) ==
    [s EXCEPT !.df = normalize_df(df_raw), !.data_loaded = TRUE]

\* the handler after fetch_table_data_via_rest returned df_raw
OnFetched(s, df_raw) ==
    LET df_norm == normalize_df(df_raw)
    IN  IF df_norm = << >>
        THEN [s EXCEPT !.df = << >>, !.data_loaded = FALSE]
        ELSE [s EXCEPT !.df = df_norm, !.data_loaded = TRUE]

\* a handler that records the error and leaves the stored table alone
OnExceptionKeepsData(s, msg) == [s EXCEPT !.last_error = msg]

\* except Exception as e
OnException(s, msg) == [s EXCEPT !.last_error = msg, !.data_loaded = FALSE, !.df = << >>]

NoSession == [loggedIn |-> FALSE, username |-> "", loginTimestamp |-> 0, checked |-> -1]
NoAttempt == [kind |-> "none", status |-> 0, has_retry_after |-> FALSE]

NoBefore == [data_loaded |-> FALSE, df |-> << >>]

Init ==
    /\ env \in [url : EnvValues, key : EnvValues]
    /\ ss = [data_loaded |-> FALSE, df |-> << >>, last_error |-> None]
    /\ pc = "idle"
    /\ retry = NewRetry(0)
    /\ attempts = 0
    /\ last = NoAttempt
    /\ before = NoBefore
    /\ fetched = << >>
    /\ outcome = "none"
    /\ ui = BeginUI
    /\ session = NoSession
    /\ now = 0

\* The button is clicked and the configuration is incomplete: the call
\* raises ValueError before it builds a request, the handler records it.
ClickFetchNoConfig ==
    /\ pc = "idle"
    /\ ConfigMissing(env)
    /\ before' = [data_loaded |-> ss.data_loaded, df |-> ss.df]
    /\ ss' = OnException(OnClick(ss), ConfigMsg)
    /\ outcome' = "config_error"
    /\ ui' = BlankUI
    /\ pc' = "main"
    /\ UNCHANGED <<env, retry, attempts, last, fetched, session, now>>

\* The button is clicked: the script run starts, the session is created
\* and session.get begins.
ClickFetch ==
    /\ pc = "idle"
    /\ ~ConfigMissing(env)
    /\ before' = [data_loaded |-> ss.data_loaded, df |-> ss.df]
    /\ ss' = OnClick(ss)
    /\ retry' = NewRetry(FetchRetries)
    /\ outcome' = "pending"
    /\ ui' = BlankUI
    /\ pc' = "fetching"
    /\ UNCHANGED <<env, attempts, last, fetched, session, now>>

\* the call ends with an exception: the handler's except branch; the
\* session, local to the call, is gone
FetchFails(cause) ==
    /\ ss' = OnException(ss, FetchRaises(cause))
    /\ outcome' = IF cause = "ssl" THEN "ssl_error" ELSE "network_error"
    /\ retry' = NewRetry(0)
    /\ pc' = "main"
    /\ UNCHANGED <<before, fetched>>

\* the attempt is followed by another one, or the retries are used up
RetryOrFail(cause) ==
    IF IsExhausted(Increment(retry, cause))
    THEN FetchFails(cause)
    ELSE /\ retry' = Increment(retry, cause)
         /\ UNCHANGED <<ss, outcome, pc, before, fetched>>

\* One HTTP request is sent and the server answers with a status.
HttpResponse ==
    /\ pc = "fetching"
    /\ \E status \in Statuses, has_retry_after \in BOOLEAN :
       \E data \in (IF status = 200 THEN TableContents ELSE {<< >>}) :
          /\ attempts' = attempts + 1
          /\ last' = [kind |-> "response", status |-> status,
                      has_retry_after |-> has_retry_after]
          /\ IF IsRetry(retry, status, has_retry_after)
             THEN RetryOrFail("status")
             ELSE IF status # 200
             THEN FetchFails("http")
             ELSE /\ ss' = OnFetched(ss, DataFrame(data))
                  /\ outcome' = IF ss'.data_loaded THEN "loaded" ELSE "empty"
                  /\ fetched' = data
                  /\ before' = NoBefore
                  /\ retry' = NewRetry(0)
                  /\ pc' = "main"
    /\ UNCHANGED <<env, ui, session, now>>

\* One HTTP request is sent and ends without an answer.
HttpError ==
    /\ pc = "fetching"
    /\ \E cause \in ErrorKinds :
          /\ attempts' = attempts + 1
          /\ last' = [kind |-> cause, status |-> 0, has_retry_after |-> FALSE]
          /\ RetryOrFail(cause)
    /\ UNCHANGED <<env, ui, session, now>>

\* A widget of the main page is changed: the script runs again, the button
\* not clicked.
Rerun ==
    /\ pc = "idle"
    /\ ui' = BlankUI
    /\ pc' = "main"
    /\ UNCHANGED <<env, ss, retry, attempts, last, before, fetched, outcome, session, now>>

\* The rest of the script run: the main page; with it the run ends, and
\* what was local to it is gone.
MainPage ==
    /\ pc = "main"
    /\ Render(ss)
    /\ pc' = "idle"
    /\ attempts' = 0
    /\ last' = NoAttempt
    /\ before' = NoBefore
    /\ fetched' = << >>
    /\ outcome' = "none"
    /\ UNCHANGED <<env, ss, retry, session, now>>

Next == ClickFetchNoConfig \/ ClickFetch \/ HttpResponse \/ HttpError \/ Rerun \/ MainPage

Spec == Init /\ [][Next]_vars

(***************************************************************************)
(* The main page alone, over larger tables: the script runs that follow a  *)
(* fetch whose first request was answered 200 with the table.              *)
(***************************************************************************)
\* row i of a long table
LongRow(i) ==
    [id |-> NumCell(i),
     billNo |-> StrCell(IF i % 2 = 0 THEN <<"A", "1">> ELSE <<"B", "2">>),
     serviceNo |-> StrCell(IF i % 3 = 0 THEN <<"S", "1">> ELSE <<"S", "2">>),
     ero |-> StrCell(IF i % 4 = 0 THEN <<"S">> ELSE <<"N">>),
     billMonth |-> StrCell(IF i % 5 = 0 THEN M2 ELSE M1),
     billAmt |-> NumCell(i), totAmt |-> NumCell(2 * i)]
LongTables == {[i \in 1..n |-> LongRow(i)] : n \in (MaxViewRows + 1)..MaxPageRows}

InitView ==
    /\ env = [url |-> "https://xyz.supabase.co", key |-> "https://xyz.supabase.co"]
    /\ \E data \in Tables(MaxViewRows) \cup LongTables :
          /\ fetched = data
          /\ ss = OnFetched([data_loaded |-> FALSE, df |-> << >>, last_error |-> None],
                            DataFrame(data))
          /\ outcome = IF ss.data_loaded THEN "loaded" ELSE "empty"
    /\ pc = "main"
    /\ retry = NewRetry(0)
    /\ attempts = 1
    /\ last = [kind |-> "response", status |-> 200, has_retry_after |-> FALSE]
    /\ before = NoBefore
    /\ ui = BlankUI
    /\ session = NoSession
    /\ now = 0

NextView == Rerun \/ MainPage

SpecView == InitView /\ [][NextView]_vars

(***************************************************************************)
(* The login gate of the login-gated version of the application.  That     *)
(* version is not among the sources; the gate is modelled from sections    *)
(* 3, 4.3 and 4.4 of the specification.  Behind the gate is the page of    *)
(* src/app.py.                                                             *)
(***************************************************************************)
SessionTimeout == 600
Ticks == {299, 300, 301}

UserNames == {"bob", "amy"}
Passwords == {"x", "y"}
\* what the read of the user table may give: no answer, or a user list
UserTableAnswers ==
    {[reachable |-> FALSE, users |-> {}],
     [reachable |-> TRUE, users |-> {}],
     [reachable |-> TRUE, users |-> {[username |-> "bob", password |-> "y"]}]}

\* checkLogin: exact, case-sensitive equality on both fields
checkLogin(username, password, answer) ==
    IF ~answer.reachable \/ answer.users = {} THEN "user table unavailable"
    ELSE IF \E u \in answer.users : u.username = username /\ u.password = password
    THEN "ok"
    ELSE "invalid credentials"

\* a guard that never expires a session
ExpiredNever(age) == FALSE

\* now - loginTimestamp > 600s
Expired(age) == age > SessionTimeout

LoginUI == [BlankUI EXCEPT !.rendered = {"login_form"}]
ProtectedStages == {"begin_info", "total_records", "month_select", "ero_select"}
                       \cup LaterStages

InitGuard ==
    /\ env = [url |-> "https://xyz.supabase.co", key |-> "https://xyz.supabase.co"]
    /\ ss = [data_loaded |-> FALSE, df |-> << >>, last_error |-> None]
    /\ pc = "idle"
    /\ retry = NewRetry(0)
    /\ attempts = 0
    /\ last = NoAttempt
    /\ before = NoBefore
    /\ fetched = << >>
    /\ outcome = "none"
    /\ ui = LoginUI
    /\ session = NoSession
    /\ now = 0

Tick ==
    /\ \E d \in Ticks : now + d <= MaxClock /\ now' = now + d
    /\ outcome' = "none"
    /\ UNCHANGED <<env, ss, pc, retry, attempts, last, before, fetched, ui, session>>

\* LoggedOut -> LoggedIn on a successful checkLogin, loginTimestamp = now
LoginAttempt ==
    /\ ~session.loggedIn
    /\ \E username \in UserNames, password \in Passwords, answer \in UserTableAnswers :
          IF checkLogin(username, password, answer) = "ok"
          THEN /\ session' = [loggedIn |-> TRUE, username |-> username,
                              loginTimestamp |-> now, checked |-> -1]
               /\ outcome' = "logged_in"
          ELSE /\ session' = session
               /\ outcome' = checkLogin(username, password, answer)
    /\ UNCHANGED <<env, ss, pc, retry, attempts, last, before, fetched, ui, now>>

\* LoggedIn -> LoggedOut on the explicit logout action
Logout ==
    /\ session.loggedIn
    /\ session' = NoSession
    /\ outcome' = "logged_out"
    /\ ui' = LoginUI
    /\ UNCHANGED <<env, ss, pc, retry, attempts, last, before, fetched, now>>

\* One request cycle: the guard first; the protected page only for a
\* session that is logged in and has not expired.
GuardedCycle ==
    /\ IF session.loggedIn /\ Expired(now - session.loginTimestamp)
       THEN /\ session' = [NoSession EXCEPT !.checked = now - session.loginTimestamp]
            /\ outcome' = "expired"
            /\ ui' = LoginUI
       ELSE IF session.loggedIn
       THEN /\ session' = [session EXCEPT !.checked = now - session.loginTimestamp]
            /\ outcome' = "protected"
            /\ Render(ss)
       ELSE /\ session' = [session EXCEPT !.checked = -1]
            /\ outcome' = "login"
            /\ ui' = LoginUI
    /\ UNCHANGED <<env, ss, pc, retry, attempts, last, before, fetched, now>>

NextGuard == Tick \/ LoginAttempt \/ Logout \/ GuardedCycle

SpecGuard == InitGuard /\ [][NextGuard]_vars

(***************************************************************************)
(* Properties.                                                             *)
(***************************************************************************)
FetchFailed == pc = "main" /\ outcome = "network_error"

\* C1 as stated: after a fetch that failed with a network/HTTP error the
\* stored records and the data-loaded flag are what they were immediately
\* before that fetch.
C1_FailedFetchKeepsState ==
    FetchFailed => ss.df = before.df /\ ss.data_loaded = before.data_loaded

\* C1 amended: after a fetch that failed with a network/HTTP error the
\* stored records are empty and the data-loaded flag is false, whatever they
\* were before the fetch, and the error message is recorded as last error.
C1_FailedFetchClearsState ==
    FetchFailed => ss.df = << >> /\ ss.data_loaded = FALSE /\ ss.last_error = NetMsg

\* a fetch failed after all its retries while a table was loaded
C1_Witness == FetchFailed /\ before.data_loaded /\ before.df # << >> /\ attempts = 5

RetriedAsStated ==
    last.kind \in ErrorKinds \/ (last.kind = "response" /\ last.status \in {429, 500, 502, 503, 504})

\* C2 as stated: a fetchTable call makes at most 4 HTTP attempts, and a
\* further attempt follows only a response with status in
\* {429,500,502,503,504} or a connection-level failure.
C2_AtMostFourAttempts ==
    /\ attempts <= 4
    /\ (pc = "fetching" /\ attempts > 0) => RetriedAsStated

\* C2 amended: a fetchTable call makes at most 5 HTTP attempts (the first
\* request and up to 4 retries), and a further attempt follows only a
\* response with status in {429,500,502,503,504}, a 413 response that
\* carries a Retry-After header, or a connection-level failure; any other
\* response ends the call.
C2_AtMostFiveAttempts ==
    /\ attempts <= 5
    /\ pc = "fetching" => attempts <= 4
    /\ (pc = "fetching" /\ attempts > 0) =>
          \/ RetriedAsStated
          \/ last.kind = "response" /\ last.status = 413 /\ last.has_retry_after

\* a call that ended with its fifth attempt
C2_Witness == pc = "main" /\ attempts = 5 /\ outcome \in {"network_error", "ssl_error", "loaded"}

\* C4: with the base URL or the API key unset, a fetch ends with the
\* configuration error and no HTTP request is issued.
C4_NoRequestWithoutConfig ==
    (env.url \in {None, ""} \/ env.key \in {None, ""}) =>
        /\ attempts = 0
        /\ pc # "fetching"
        /\ outcome \in {"none", "config_error"}
        /\ outcome = "config_error" => ss.last_error = ConfigMsg /\ ~ss.data_loaded

\* the button was clicked with the URL set and the key unset
C4_Witness ==
    /\ outcome = "config_error" /\ pc = "main" /\ attempts = 0
    /\ env.url \notin {None, ""} /\ env.key = None

\* C10: data_loaded holds exactly when the stored records are non-empty, a
\* recorded last error implies data_loaded is false, and the main page's
\* pipeline never runs on an empty stored dataset.
C10_LoadedIffNonEmpty ==
    /\ ss.data_loaded <=> ss.df # << >>
    /\ ss.last_error # None => ~ss.data_loaded
    /\ (ui.rendered \cap ({"total_records", "month_select", "ero_select"} \cup LaterStages)) # {}
          => ui.source # << >>

\* a fetch answered with rows that have no column: nothing is loaded
C10_Witness == pc = "main" /\ outcome = "empty" /\ fetched # << >> /\ ~ss.data_loaded

MainPageRan == ui.rendered # {} /\ "begin_info" \notin ui.rendered /\ "login_form" \notin ui.rendered

\* C5: a script run with no month or no ERO selected shows the "select at
\* least one" prompt, renders none of the later stages (search, table,
\* totals, charts, exports) and leaves the stored records as they were.
C5_EmptySelectionHalts ==
    (MainPageRan /\ (ui.selected_months = {} \/ ui.selected_eros = {})) =>
        /\ ui.rendered \cap LaterStages = {}
        /\ ui.prompt \in {"Please select at least one billMonth.",
                          "Please select at least one ERO."}
        /\ ss.df = ui.source

\* months were selected and no ERO
C5_Witness ==
    /\ MainPageRan /\ ui.selected_months # {} /\ ui.selected_eros = {}
    /\ ui.prompt = "Please select at least one ERO."

\* one filter applied to the result of the filters before it
ApplyFilter(name, res, selected_months, selected_eros, search_value) ==
    CASE name = "month" -> [res EXCEPT !.rows = MonthFilter(res.rows, selected_months)]
      [] name = "ero" -> [res EXCEPT !.rows = EroFilter(res.rows, selected_eros)]
      [] name = "search" -> IF res.raised THEN res ELSE SearchFilter(res.rows, search_value)
ApplyInOrder(order, df, selected_months, selected_eros, search_value) ==
    LET r0 == [raised |-> FALSE, rows |-> df]
        r1 == ApplyFilter(order[1], r0, selected_months, selected_eros, search_value)
        r2 == ApplyFilter(order[2], r1, selected_months, selected_eros, search_value)
        r3 == ApplyFilter(order[3], r2, selected_months, selected_eros, search_value)
    IN  IF r3.raised THEN [raised |-> TRUE, rows |-> << >>] ELSE r3
FilterOrders == {o \in [1..3 -> {"month", "ero", "search"}] : \A i, j \in 1..3 : i # j => o[i] # o[j]}

\* C7: the month filter, the ERO filter and the text search applied in any
\* order give the rows the script's order (month, ERO, search) gives.
C7_FilterOrderIndependent ==
    (MainPageRan /\ ui.prompt = "") =>
        \A o \in FilterOrders :
            ApplyInOrder(o, ui.source, ui.selected_months, ui.selected_eros, ui.search_value)
                = [raised |-> ui.raised, rows |-> ui.view]

\* each of the three filters dropped a row of a long table, and rows are left
C7_Witness ==
    /\ MainPageRan /\ "table" \in ui.rendered
    /\ ui.search_value # EmptyStr
    /\ ui.selected_months # bill_months(ui.source)
    /\ ui.selected_eros # eros(MonthFilter(ui.source, ui.selected_months))
    /\ Len(ui.view) > 1
    /\ Len(ui.view) < Len(EroFilter(MonthFilter(ui.source, ui.selected_months), ui.selected_eros))

\* s holds sub as a literal substring
Contains(s, sub) ==
    \E k \in 1..(Len(s) - Len(sub) + 1) : SubSeq(s, k, k + Len(sub) - 1) = sub

\* C8: a non-empty search string keeps exactly the rows whose billNo or
\* serviceNo holds it as a case-sensitive literal substring, every
\* character matched literally, and the search never raises an error.
C8_SearchIsLiteral ==
    (MainPageRan /\ ui.prompt = "" /\ ui.search_value # EmptyStr) =>
        /\ ~ui.raised
        /\ ui.view = SelectSeq(EroFilter(MonthFilter(ui.source, ui.selected_months),
                                         ui.selected_eros),
                               LAMBDA r : Contains(r.billNo, ui.search_value)
                                          \/ Contains(r.serviceNo, ui.search_value))

\* C9: total_pages is ceil(totalRows / rowsPerPage), 1 at the least; the
\* page holds exactly rows [(page-1)*rowsPerPage, page*rowsPerPage) of the
\* filtered view; with no row there is one page and it is empty.
C9_Pagination ==
    ("table" \in ui.rendered) =>
        LET n == Len(ui.view)
            rpp == ui.rows_per_page
            lo == (ui.page - 1) * rpp
        IN  /\ rpp \in {10, 20, 50, 100}
            /\ ui.total_pages >= 1
            /\ ui.total_pages * rpp >= n
            /\ ui.total_pages > 1 => (ui.total_pages - 1) * rpp < n
            /\ ui.page \in 1..ui.total_pages
            /\ Len(ui.df_page) = Cardinality({i \in 1..n : lo < i /\ i <= lo + rpp})
            /\ \A k \in 1..Len(ui.df_page) : ui.df_page[k] = ui.view[lo + k]
            /\ n = 0 => ui.total_pages = 1 /\ ui.df_page = << >>

\* the third and last page of 21 rows, 10 to a page
C9_Witness ==
    /\ "table" \in ui.rendered /\ Len(ui.view) = 21 /\ ui.rows_per_page = 10
    /\ ui.total_pages = 3 /\ ui.page = 3 /\ Len(ui.df_page) = 1

RawMissing(cell) == cell.kind \in {"absent", "none"}

\* C6: after normalize, billAmt and totAmt are 0.0 where the raw value is
\* missing or not a number, billNo, serviceNo, ero and billMonth are the
\* empty string where the raw value is absent (no column, or a null in the
\* row), and no null marker ("None", "nan") is among the month and ERO
\* candidates.
C6_NormalizeDefaults ==
    /\ (pc = "main" /\ outcome = "loaded") =>
          \A i \in 1..Len(ss.df) :
             /\ \A c \in NumCols :
                   (RawMissing(fetched[i][c])
                      \/ (fetched[i][c].kind = "str" /\ ~IsDigits(fetched[i][c].s)))
                   => ss.df[i][c] = 0
             /\ \A c \in StrCols : RawMissing(fetched[i][c]) => ss.df[i][c] = EmptyStr
    /\ (bill_months(ss.df) \cup eros(ss.df)) \cap {NoneStr, NanStr} = {}

ProtectedRan == ui.rendered \cap ProtectedStages # {}

\* C3: the guard is evaluated at the start of every request cycle: a cycle
\* 601 s after login logs the session out and runs nothing of the protected
\* page, a cycle 599 s after login leaves the session logged in and runs
\* it; the protected page never runs while the session is logged out.
C3_GuardBeforeProtected ==
    /\ ProtectedRan => session.loggedIn
    /\ (outcome \in {"expired", "protected"} /\ session.checked >= 601) =>
          ~session.loggedIn /\ ~ProtectedRan /\ outcome = "expired"
    /\ (outcome \in {"expired", "protected"} /\ session.checked <= 599) =>
          session.loggedIn /\ ProtectedRan /\ outcome = "protected"

\* a cycle evaluated 601 s after the login
C3_Witness == outcome = "expired" /\ session.checked = 601 /\ ~session.loggedIn

=============================================================================
